---------------------------- MODULE Spec2Model ----------------------------
(***************************************************************************)
(* Model of PlaylistSplitter (src/src/PlaylistSplitter/PlaylistSplitter.py) *)
(*                                                                         *)
(* The splitter instance holds four private fields (origin playlist, split *)
(* type, split pools, target playlists).  The Spotify client is modelled   *)
(* as a catalog: the pages of the origin playlist, the items of every      *)
(* destination playlist, the number of playlists created, and the ordered  *)
(* log of the calls the most recent operation issued.                      *)
(*                                                                         *)
(* Python values: None of a string field is the string "None"; a paging    *)
(* cursor is a page index, 0 standing for None (falsy); track ids are      *)
(* naturals; playlist ids are pairs <<"given", i>> or <<"created", n>>.    *)
(***************************************************************************)
EXTENDS Integers, Sequences, FiniteSets, TLC

VARIABLES
    origin_playlist,    \* self.__origin_playlist
    target_playlists,   \* self.__target_playlists
    split_type,         \* self.__split_type
    split_pools,        \* self.__split_pools
    pages,              \* catalog: pages of the origin playlist (items per page)
    contents,           \* catalog: playlist id -> its items, in order
    created,            \* catalog: number of playlists created so far
    calls,              \* catalog calls issued by the most recent operation
    raised,             \* exception the most recent operation ended with
    last,               \* the most recent operation and its arguments
    result,             \* what the most recent operation returned / computed
    nsplit              \* number of split() invocations so far

vars == <<origin_playlist, target_playlists, split_type, split_pools, pages,
          contents, created, calls, raised, last, result, nsplit>>

---------------------------------------------------------------------------
(* Bounds of the model *)

MaxPools == 2
MaxTracks == 3
MaxPages == 3
MaxPageItems == 1
MaxTargets == 3
MaxSplits == 2
MaxWriteLen == 101
MaxPrior == 2

(* Program constants *)

BatchLimit == 50
PlaceholderTrack == 0

---------------------------------------------------------------------------
(* Python values *)

NoneStr == "None"
NoError == "none"
ErrSettings == "ValueError: Playlist and split settings must be set to perform split"
ErrTargets == "ValueError: List of target playlists must be same length as split pools (or unset)"
ErrZip == "ValueError: zip() argument 2 is shorter than argument 1"
ErrZipLonger == "ValueError: zip() argument 2 is longer than argument 1"
ErrGenLen == "TypeError: object of type 'generator' has no len()"

NonePools == [set |-> FALSE, pools |-> <<>>]
SomePools(ps) == [set |-> TRUE, pools |-> ps]

NoneTargets == [kind |-> "None", ids |-> <<>>, left |-> 0]
ListTargets(ids) == [kind |-> "list", ids |-> ids, left |-> 0]
GenTargets(n) == [kind |-> "generator", ids |-> <<>>, left |-> n]

NoResult == [kind |-> "None"]

Min(a, b) == IF a < b THEN a ELSE b

SeqsUpTo(S, n) == UNION {[1..k -> S] : k \in 0..n}

---------------------------------------------------------------------------
(* The catalog's data: tracks, albums, labels *)

Track(id, artists, album) == [id |-> id, artists |-> artists, album |-> album]

Tracks ==
    { Track(1, {"A", "B"}, "album1"),
      Track(2, {"C"}, "album2"),
      Track(3, {"D"}, "album3") }

AlbumLabel(album) ==
    CASE album = "album1" -> "Ninja Tune"
      [] album = "album2" -> "ninja tune"
      [] album = "album3" -> "Ninja Tune"
      [] OTHER -> "Warp"

ArtistKeys == {"A", "B", "C"}
LabelKeys == {"Ninja Tune", "ninja tune", "Warp"}

OriginId == "origin"
UserId == "user"
Given(i) == <<"given", i>>
Created(n) == <<"created", n>>

---------------------------------------------------------------------------
(* The catalog: a record [contents, created, calls] threaded through the  *)
(* client calls of one operation.                                          *)

Cat(cn, cr, cl) == [contents |-> cn, created |-> cr, calls |-> cl]

Logged(cat, call) == [cat EXCEPT !.calls = Append(@, call)]

\* the catalog an operation leaves behind
CatalogAfter(cat) ==
    /\ contents' = cat.contents
    /\ created' = cat.created
    /\ calls' = cat.calls

RECURSIVE Without(_, _)
Without(items, gone) ==
    IF items = <<>> THEN <<>>
    ELSE IF \E i \in 1..Len(gone) : gone[i] = Head(items)
         THEN Without(Tail(items), gone)
         ELSE <<Head(items)>> \o Without(Tail(items), gone)

playlist_replace_items(cat, playlist_id, items) ==
    [Logged(cat, <<"playlist_replace_items", playlist_id, items>>)
        EXCEPT !.contents[playlist_id] = items]

playlist_remove_all_occurrences_of_items(cat, playlist_id, items) ==
    [Logged(cat, <<"playlist_remove_all_occurrences_of_items", playlist_id, items>>)
        EXCEPT !.contents[playlist_id] = Without(@, items)]

playlist_add_items(cat, playlist_id, items) ==
    [Logged(cat, <<"playlist_add_items", playlist_id, items>>)
        EXCEPT !.contents[playlist_id] = @ \o items]

---------------------------------------------------------------------------
(* Classifier *)

\* the for/else over enumerate(pools): hits[idx] is the if-condition for
\* pool idx; the first idx that hits (break), else Len(hits)+1, the position
\* of track_pools[-1]
\* faulty variant: the scan keeps going after a hit (no break), so the last
\* matching pool wins
RECURSIVE LastPoolMutant(_, _)
LastPoolMutant(hits, idx) ==
    LET later == IF idx > Len(hits) THEN Len(hits) + 1 ELSE LastPoolMutant(hits, idx + 1)
    IN IF idx > Len(hits) THEN Len(hits) + 1
       ELSE IF later <= Len(hits) THEN later
       ELSE IF hits[idx] THEN idx
       ELSE Len(hits) + 1

RECURSIVE FirstPool(_, _)
FirstPool(hits, idx) ==
    IF idx > Len(hits) THEN Len(hits) + 1
    ELSE IF hits[idx] THEN idx
    ELSE FirstPool(hits, idx + 1)

ArtistHit(track, pool) == (track.artists \cap pool) # {}

\* faulty variant: labels compared after case folding
Lower(label) == IF label = "Ninja Tune" THEN "ninja tune" ELSE label
LabelHitFoldedMutant(label, pool) == \E l \in pool : Lower(l) = Lower(label)

LabelHit(label, pool) == label \in pool

\* faulty variant: the id is inserted at the front of the bucket
PrependToMutant(track_pools, idx, id) == [track_pools EXCEPT ![idx] = <<id>> \o @]

\* track_pools[idx].append(id)
AppendTo(track_pools, idx, id) == [track_pools EXCEPT ![idx] = Append(@, id)]

EmptyTrackPools(pools) == [i \in 1..(Len(pools) + 1) |-> <<>>]

RECURSIVE ArtistLoop(_, _, _, _)
ArtistLoop(slimmed, pools, k, track_pools) ==
    IF k > Len(slimmed) THEN track_pools
    ELSE LET track == slimmed[k]
             hits == [idx \in 1..Len(pools) |-> ArtistHit(track, pools[idx])]
         IN ArtistLoop(slimmed, pools, k + 1,
                       AppendTo(track_pools, FirstPool(hits, 1), track.id))

split_by_artist(tracks, pools) ==
    LET slimmed == [k \in 1..Len(tracks) |->
                      [id |-> tracks[k].id, artists |-> tracks[k].artists]]
    IN ArtistLoop(slimmed, pools, 1, EmptyTrackPools(pools))

\* one step of the generator: look the album up, yield id and label
label_track_slimmer(cat, track) ==
    [cat |-> Logged(cat, <<"album", track.album>>),
     track |-> [id |-> track.id, label |-> AlbumLabel(track.album)]]

RECURSIVE LabelLoop(_, _, _, _, _)
LabelLoop(cat, tracks, pools, k, track_pools) ==
    IF k > Len(tracks) THEN [cat |-> cat, track_pools |-> track_pools]
    ELSE LET y == label_track_slimmer(cat, tracks[k])
             hits == [idx \in 1..Len(pools) |-> LabelHit(y.track.label, pools[idx])]
         IN LabelLoop(y.cat, tracks, pools, k + 1,
                      AppendTo(track_pools, FirstPool(hits, 1), y.track.id))

split_by_label(cat, tracks, pools) ==
    LabelLoop(cat, tracks, pools, 1, EmptyTrackPools(pools))

---------------------------------------------------------------------------
(* Specification of the classifier: the pools and the split type are       *)
(* drawn, and each action applies a classifier, once, to a drawn track     *)
(* list (the classifiers read the pools and change no field).              *)

TrackLists == SeqsUpTo(Tracks, MaxTracks)
ArtistPoolLists == SeqsUpTo(SUBSET ArtistKeys, MaxPools)
LabelPoolLists == SeqsUpTo(SUBSET LabelKeys, MaxPools)

InitCatalog ==
    /\ pages = <<<<>>>>
    /\ contents = [p \in {} |-> <<>>]
    /\ created = 0
    /\ calls = <<>>
    /\ raised = NoError
    /\ last = [op |-> "init"]
    /\ result = NoResult
    /\ nsplit = 0

InitClassify ==
    /\ origin_playlist = NoneStr
    /\ target_playlists = NoneTargets
    /\ \/ split_type = "artist" /\ \E ps \in ArtistPoolLists : split_pools = SomePools(ps)
       \/ split_type = "label" /\ \E ps \in LabelPoolLists : split_pools = SomePools(ps)
    /\ InitCatalog

SplitByArtist ==
    /\ last.op = "init"
    /\ split_type = "artist"
    /\ \E tracks \in TrackLists :
        /\ last' = [op |-> "split_by_artist", tracks |-> tracks]
        /\ result' = split_by_artist(tracks, split_pools.pools)
        /\ calls' = <<>>
    /\ UNCHANGED <<origin_playlist, target_playlists, split_type, split_pools,
                   pages, contents, created, raised, nsplit>>

SplitByLabel ==
    /\ last.op = "init"
    /\ split_type = "label"
    /\ \E tracks \in TrackLists :
        LET r == split_by_label(Cat(contents, created, <<>>), tracks, split_pools.pools)
        IN /\ last' = [op |-> "split_by_label", tracks |-> tracks]
           /\ result' = r.track_pools
           /\ calls' = r.cat.calls
    /\ UNCHANGED <<origin_playlist, target_playlists, split_type, split_pools,
                   pages, contents, created, raised, nsplit>>

NextClassify == SplitByArtist \/ SplitByLabel

SpecClassify == InitClassify /\ [][NextClassify]_vars

---------------------------------------------------------------------------
(* Destination write *)

\* faulty variant: the placeholder is written but never removed
reset_playlist_keeps_placeholder(cat, playlist_id) ==
    playlist_replace_items(cat, playlist_id, <<PlaceholderTrack>>)

reset_playlist(cat, playlist_id) ==
    playlist_remove_all_occurrences_of_items(
        playlist_replace_items(cat, playlist_id, <<PlaceholderTrack>>),
        playlist_id, <<PlaceholderTrack>>)

\* range(start, stop, step) for step > 0
RECURSIVE PyRange(_, _, _)
PyRange(start, stop, step) ==
    IF start >= stop THEN <<>>
    ELSE <<start>> \o PyRange(start + step, stop, step)

\* seq[lo:hi] for 0 <= lo <= hi (0-based, hi exclusive, clamped to the end)
PySlice(seq, lo, hi) == SubSeq(seq, lo + 1, Min(hi, Len(seq)))

\* faulty variant: every slice is one item short (tracks[i: i + 49])
chunk_track_list_short_slice(tracks) ==
    LET starts == PyRange(0, Len(tracks), BatchLimit)
    IN [k \in 1..Len(starts) |-> PySlice(tracks, starts[k], starts[k] + BatchLimit - 1)]

chunk_track_list(tracks) ==
    LET starts == PyRange(0, Len(tracks), BatchLimit)
    IN [k \in 1..Len(starts) |-> PySlice(tracks, starts[k], starts[k] + BatchLimit)]

RECURSIVE AddChunks(_, _, _, _)
AddChunks(cat, playlist, chunked_list, k) ==
    IF k > Len(chunked_list) THEN cat
    ELSE AddChunks(playlist_add_items(cat, playlist, chunked_list[k]),
                   playlist, chunked_list, k + 1)

write_playlist(cat, playlist, track_list) ==
    AddChunks(reset_playlist(cat, playlist), playlist, chunk_track_list(track_list), 1)

\* the body of the loop of __do_split: reset, then write
ResetAndWrite(cat, playlist, tracks) ==
    write_playlist(reset_playlist(cat, playlist), playlist, tracks)

---------------------------------------------------------------------------
(* Specification of the destination write: a destination with drawn prior  *)
(* contents; each action resets it, writes a drawn list to it, or both.    *)
(* Operations are explored on destinations holding at most MaxPrior items. *)

\* track lists of every length up to MaxWriteLen: all ids distinct, or ids
\* repeating with period 3 (the placeholder's id among them)
WriteLists ==
    {[i \in 1..n |-> i] : n \in 0..MaxWriteLen} \cup
    {[i \in 1..n |-> i % 3] : n \in 0..MaxWriteLen}

PriorContents == SeqsUpTo({PlaceholderTrack, 1, 2}, MaxPrior)

InitWrite ==
    /\ origin_playlist = NoneStr
    /\ target_playlists = NoneTargets
    /\ split_type = NoneStr
    /\ split_pools = NonePools
    /\ pages = <<<<>>>>
    /\ \E prior \in PriorContents : contents = (Given(1) :> prior)
    /\ created = 0
    /\ calls = <<>>
    /\ raised = NoError
    /\ last = [op |-> "init"]
    /\ result = NoResult
    /\ nsplit = 0

ResetPlaylist ==
    /\ \E p \in DOMAIN contents :
        /\ Len(contents[p]) <= MaxPrior
        /\ CatalogAfter(reset_playlist(Cat(contents, created, <<>>), p))
        /\ last' = [op |-> "reset_playlist", playlist |-> p, prior |-> contents[p]]
    /\ UNCHANGED <<origin_playlist, target_playlists, split_type, split_pools,
                   pages, raised, result, nsplit>>

WritePlaylist ==
    /\ \E p \in DOMAIN contents, tl \in WriteLists :
        /\ Len(contents[p]) <= MaxPrior
        /\ CatalogAfter(write_playlist(Cat(contents, created, <<>>), p, tl))
        /\ last' = [op |-> "write_playlist", playlist |-> p, prior |-> contents[p],
                    track_list |-> tl]
    /\ UNCHANGED <<origin_playlist, target_playlists, split_type, split_pools,
                   pages, raised, result, nsplit>>

ResetThenWrite ==
    /\ \E p \in DOMAIN contents, tl \in WriteLists :
        /\ Len(contents[p]) <= MaxPrior
        /\ CatalogAfter(ResetAndWrite(Cat(contents, created, <<>>), p, tl))
        /\ last' = [op |-> "reset_then_write", playlist |-> p, prior |-> contents[p],
                    track_list |-> tl]
    /\ UNCHANGED <<origin_playlist, target_playlists, split_type, split_pools,
                   pages, raised, result, nsplit>>

NextWrite == ResetPlaylist \/ WritePlaylist \/ ResetThenWrite

SpecWrite == InitWrite /\ [][NextWrite]_vars

---------------------------------------------------------------------------
(* Paging helper *)

\* the page of the origin playlist at cursor i: its items and the cursor of
\* the page after it, 0 (None) on the last page
PageAt(pgs, i) == [items |-> pgs[i], next |-> IF i < Len(pgs) THEN i + 1 ELSE 0]

\* client.playlist(playlist_id): the playlist object with its first page
client_playlist(cat, pgs, playlist_id) ==
    [cat |-> Logged(cat, <<"playlist", playlist_id>>),
     results |-> [tracks |-> PageAt(pgs, 1)]]

\* client.next(page): the page at page's cursor (nothing past the last page)
client_next(cat, pgs, page) ==
    [cat |-> Logged(cat, <<"next", page.next>>),
     page |-> IF page.next # 0 THEN PageAt(pgs, page.next)
              ELSE [items |-> <<>>, next |-> 0]]

\* faulty variant: the next page is requested before the cursor is tested (do-while)
RECURSIVE FetchLoopDoWhile(_, _, _, _)
FetchLoopDoWhile(cat, pgs, tracks, playlist_tracks) ==
    LET r == client_next(cat, pgs, tracks)
    IN IF r.page.next # 0
       THEN FetchLoopDoWhile(r.cat, pgs, r.page, playlist_tracks \o r.page.items)
       ELSE [cat |-> r.cat, items |-> playlist_tracks \o r.page.items]

\* while results['tracks']['next']: ...
RECURSIVE FetchLoop(_, _, _, _)
FetchLoop(cat, pgs, tracks, playlist_tracks) ==
    IF tracks.next # 0
    THEN LET r == client_next(cat, pgs, tracks)
         IN FetchLoop(r.cat, pgs, r.page, playlist_tracks \o r.page.items)
    ELSE [cat |-> cat, items |-> playlist_tracks]

get_all_playlist_items(cat, pgs, playlist_id) ==
    LET first == client_playlist(cat, pgs, playlist_id)
    IN FetchLoop(first.cat, pgs, first.results.tracks, first.results.tracks.items)

---------------------------------------------------------------------------
(* Specification of the paging helper: the origin playlist is served as a  *)
(* drawn sequence of 1..MaxPages pages of at most MaxPageItems items.      *)

Items == {[track |-> t] : t \in Tracks}
PageLists == SeqsUpTo(SeqsUpTo(Items, MaxPageItems), MaxPages) \ {<<>>}

InitFetch ==
    /\ origin_playlist = OriginId
    /\ target_playlists = NoneTargets
    /\ split_type = NoneStr
    /\ split_pools = NonePools
    /\ pages \in PageLists
    /\ contents = [p \in {} |-> <<>>]
    /\ created = 0
    /\ calls = <<>>
    /\ raised = NoError
    /\ last = [op |-> "init"]
    /\ result = NoResult
    /\ nsplit = 0

GetAllPlaylistItems ==
    /\ LET f == get_all_playlist_items(Cat(contents, created, <<>>), pages, origin_playlist)
       IN /\ CatalogAfter(f.cat)
          /\ result' = f.items
    /\ last' = [op |-> "get_all_playlist_items", playlist_id |-> origin_playlist]
    /\ UNCHANGED <<origin_playlist, target_playlists, split_type, split_pools,
                   pages, raised, nsplit>>

NextFetch == GetAllPlaylistItems

SpecFetch == InitFetch /\ [][NextFetch]_vars

---------------------------------------------------------------------------
(* Split orchestrator *)

Self(o, t, ty, ps) ==
    [origin_playlist |-> o, target_playlists |-> t, split_type |-> ty, split_pools |-> ps]

by(self, split_by, split_lists) ==
    [self EXCEPT !.split_type = split_by, !.split_pools = split_lists]

playlist(self, playlist_id) == [self EXCEPT !.origin_playlist = playlist_id]

into(self, playlist_ids) == [self EXCEPT !.target_playlists = playlist_ids]

\* current_user(), then user_playlist_create(): a new, empty playlist
make_target_playlist(cat) ==
    LET c1 == Logged(cat, <<"current_user">>)
        c2 == Logged(c1, <<"user_playlist_create", UserId, "test1">>)
        id == Created(cat.created + 1)
    IN [cat |-> [c2 EXCEPT !.created = @ + 1, !.contents = @ @@ (id :> <<>>)],
        playlist |-> id]

\* next() on the target playlists: a list yields its i-th id, the generator
\* of line 118 creates a playlist per item it still has to yield
NextTarget(cat, targets, i) ==
    IF targets.kind = "list"
    THEN IF i <= Len(targets.ids)
         THEN [some |-> TRUE, cat |-> cat, targets |-> targets, playlist |-> targets.ids[i]]
         ELSE [some |-> FALSE, cat |-> cat, targets |-> targets, playlist |-> Given(0)]
    ELSE IF targets.left > 0
         THEN LET m == make_target_playlist(cat)
              IN [some |-> TRUE, cat |-> m.cat,
                  targets |-> [targets EXCEPT !.left = @ - 1], playlist |-> m.playlist]
         ELSE [some |-> FALSE, cat |-> cat, targets |-> targets, playlist |-> Given(0)]

\* for tracks, playlist in zip(track_pools, self.__target_playlists, strict=True)
RECURSIVE ZipLoop(_, _, _, _)
ZipLoop(cat, track_pools, targets, i) ==
    LET t == NextTarget(cat, targets, i)
    IN IF i > Len(track_pools)
       THEN [cat |-> t.cat, targets |-> t.targets,
             raised |-> IF t.some THEN ErrZipLonger ELSE NoError]
       ELSE IF ~t.some
       THEN [cat |-> t.cat, targets |-> t.targets, raised |-> ErrZip]
       ELSE ZipLoop(ResetAndWrite(t.cat, t.playlist, track_pools[i]),
                    track_pools, t.targets, i + 1)

do_split(self, cat, pgs) ==
    LET f == get_all_playlist_items(cat, pgs, self.origin_playlist)
        origin_tracks == [k \in 1..Len(f.items) |-> f.items[k].track]
        c == IF self.split_type = "artist"
             THEN [cat |-> f.cat,
                   track_pools |-> split_by_artist(origin_tracks, self.split_pools.pools)]
             ELSE split_by_label(f.cat, origin_tracks, self.split_pools.pools)
        z == ZipLoop(c.cat, c.track_pools, self.target_playlists, 1)
    IN [self |-> [self EXCEPT !.target_playlists = z.targets],
        cat |-> z.cat, raised |-> z.raised, track_pools |-> c.track_pools]

\* the keyword arguments of split, applied as lines 105-110 apply them
NoBy == [given |-> FALSE, split_by |-> NoneStr, split_lists |-> NonePools]
ByArg(split_by, split_lists) ==
    [given |-> TRUE, split_by |-> split_by, split_lists |-> split_lists]

WithKeywords(self, by_kw, playlist_kw, into_kw) ==
    LET s1 == IF by_kw.given THEN by(self, by_kw.split_by, by_kw.split_lists) ELSE self
        s2 == IF playlist_kw # NoneStr THEN playlist(s1, playlist_kw) ELSE s1
    IN IF into_kw # NoneTargets THEN into(s2, into_kw) ELSE s2

Failed(self, cat, error) ==
    [self |-> self, cat |-> cat, raised |-> error, track_pools |-> NoResult]

\* faulty variant: the settings check does not look at the origin playlist
SettingsMissingNoOrigin(self) ==
    \/ self.split_type = NoneStr
    \/ ~self.split_pools.set

\* line 111
SettingsMissing(self) ==
    \/ self.origin_playlist = NoneStr
    \/ self.split_type = NoneStr
    \/ ~self.split_pools.set

\* lines 113-115 for a list (len() of a generator raises before this)
TargetCountWrong(self) ==
    /\ Len(self.split_pools.pools) # Len(self.target_playlists.ids)
    /\ Len(self.split_pools.pools) + 1 # Len(self.target_playlists.ids)

\* line 117: not self.__target_playlists (None or an empty list)
TargetsFalsy(self) ==
    \/ self.target_playlists.kind = "None"
    \/ self.target_playlists.kind = "list" /\ self.target_playlists.ids = <<>>

\* faulty variant: split forgets its settings once it has run
split_consuming(self, by_kw, playlist_kw, into_kw, cat, pgs) ==
    LET s == WithKeywords(self, by_kw, playlist_kw, into_kw)
        r == IF SettingsMissing(s) THEN Failed(s, cat, ErrSettings)
             ELSE IF s.target_playlists.kind = "generator" THEN Failed(s, cat, ErrGenLen)
             ELSE IF s.target_playlists.kind = "list" /\ TargetCountWrong(s)
                  THEN Failed(s, cat, ErrTargets)
             ELSE IF TargetsFalsy(s)
                  THEN do_split(into(s, GenTargets(Len(s.split_pools.pools))), cat, pgs)
             ELSE do_split(s, cat, pgs)
    IN IF r.raised \in {ErrSettings, ErrGenLen, ErrTargets} THEN r
       ELSE [r EXCEPT !.self = Self(NoneStr, NoneTargets, NoneStr, NonePools)]

split(self, by_kw, playlist_kw, into_kw, cat, pgs) ==
    LET s == WithKeywords(self, by_kw, playlist_kw, into_kw)
    IN IF SettingsMissing(s) THEN Failed(s, cat, ErrSettings)
       ELSE IF s.target_playlists.kind = "generator" THEN Failed(s, cat, ErrGenLen)
       ELSE IF s.target_playlists.kind = "list" /\ TargetCountWrong(s)
            THEN Failed(s, cat, ErrTargets)
       ELSE IF TargetsFalsy(s)
            THEN do_split(into(s, GenTargets(Len(s.split_pools.pools))), cat, pgs)
       ELSE do_split(s, cat, pgs)

---------------------------------------------------------------------------
(* Specification of the splitter: a fresh instance, an origin playlist of  *)
(* drawn tracks, MaxTargets existing destinations that already hold items; *)
(* the actions are the public calls by, playlist, into and split.          *)

\* pools usable in both modes (an artist id and a label each), in the
\* order the caller lists them; the pool lists are the prefixes of AllPools
AllPools == <<{"A", "Ninja Tune"}, {"C", "ninja tune"}, {"D", "Warp"}, {"B"}>>
OrchPoolLists == {SubSeq(AllPools, 1, n) : n \in 0..MaxPools}
SplitTypes == {"artist", "label"}

\* by(split_by, split_lists), split_lists possibly passed as None
ByArgs ==
    {<<t, SomePools(ps)>> : t \in SplitTypes, ps \in OrchPoolLists}
        \cup {<<"artist", NonePools>>}

\* lists of distinct existing destinations: Given(1), ..., Given(n)
TargetLists == {[i \in 1..n |-> Given(i)] : n \in 0..MaxTargets}

\* the origin playlist: the first n tracks of the catalog in id order, one
\* track per page (n = 0: a single empty page)
OriginPageLists ==
    {pl \in PageLists :
        \A i \in 1..Len(pl) : Len(pl[i]) = 1 /\ pl[i][1].track.id = i}
      \cup {<<<<>>>>}

Init ==
    /\ origin_playlist = NoneStr
    /\ target_playlists = NoneTargets
    /\ split_type = NoneStr
    /\ split_pools = NonePools
    /\ pages \in OriginPageLists
    /\ contents = [p \in {Given(i) : i \in 1..MaxTargets} |-> <<PlaceholderTrack, 3>>]
    /\ created = 0
    /\ calls = <<>>
    /\ raised = NoError
    /\ last = [op |-> "init"]
    /\ result = NoResult
    /\ nsplit = 0

SelfNow == Self(origin_playlist, target_playlists, split_type, split_pools)

SelfAfter(self) ==
    /\ origin_playlist' = self.origin_playlist
    /\ target_playlists' = self.target_playlists
    /\ split_type' = self.split_type
    /\ split_pools' = self.split_pools

Quiet(op) ==
    /\ last' = [op |-> op]
    /\ calls' = <<>>
    /\ raised' = NoError
    /\ result' = NoResult
    /\ UNCHANGED <<pages, contents, created, nsplit>>

By ==
    /\ nsplit < MaxSplits
    /\ \E b \in ByArgs : SelfAfter(by(SelfNow, b[1], b[2]))
    /\ Quiet("by")

Playlist ==
    /\ nsplit < MaxSplits
    /\ SelfAfter(playlist(SelfNow, OriginId))
    /\ Quiet("playlist")

Into ==
    /\ nsplit < MaxSplits
    /\ \E ids \in TargetLists : SelfAfter(into(SelfNow, ListTargets(ids)))
    /\ Quiet("into")

\* last records which keyword arguments were passed and the target
\* playlists the instance held when lines 111-117 examined them
Split ==
    /\ nsplit < MaxSplits
    /\ \E by_kw \in {NoBy} \cup {ByArg(b[1], b[2]) : b \in ByArgs},
          playlist_kw \in {NoneStr, OriginId},
          into_kw \in {NoneTargets} \cup {ListTargets(ids) : ids \in TargetLists} :
        \E r \in {split(SelfNow, by_kw, playlist_kw, into_kw,
                         Cat(contents, created, <<>>), pages)} :
           /\ SelfAfter(r.self)
           /\ CatalogAfter(r.cat)
           /\ raised' = r.raised
           /\ result' = r.track_pools
           /\ last' = [op |-> "split", by |-> by_kw.given,
                       playlist |-> playlist_kw # NoneStr,
                       into |-> into_kw # NoneTargets,
                       targets |-> WithKeywords(SelfNow, by_kw, playlist_kw,
                                                into_kw).target_playlists]
    /\ nsplit' = nsplit + 1
    /\ UNCHANGED pages

Next == By \/ Playlist \/ Into \/ Split

Spec == Init /\ [][Next]_vars

---------------------------------------------------------------------------
(* Properties of the classifier *)

Ids(tracks) == [k \in 1..Len(tracks) |-> tracks[k].id]
Range(seq) == {seq[i] : i \in 1..Len(seq)}
Restrict(seq, S) == LET In(x) == x \in S IN SelectSeq(seq, In)

\* a list of buckets is a stable partition of the id list: the buckets'
\* id sets are disjoint and cover the input, and every bucket is the input
\* restricted to its ids (same occurrences, same order)
IsStablePartition(buckets, ids) ==
    /\ \A i, j \in 1..Len(buckets) : i # j => Range(buckets[i]) \cap Range(buckets[j]) = {}
    /\ \A k \in 1..Len(ids) : \E i \in 1..Len(buckets) : ids[k] \in Range(buckets[i])
    /\ \A i \in 1..Len(buckets) : buckets[i] = Restrict(ids, Range(buckets[i]))

\* the bucket the specification assigns: the least pool index that matches,
\* the overflow index Len(pools)+1 (0-based: len(pools)) when none does
\* (matches[i] tells whether pool i matches the track)
LeastMatch(matches) ==
    IF \E i \in 1..Len(matches) : matches[i]
    THEN CHOOSE i \in 1..Len(matches) :
            matches[i] /\ \A j \in 1..(i - 1) : ~matches[j]
    ELSE Len(matches) + 1

InBucketOnly(buckets, id, b) ==
    \A i \in 1..Len(buckets) : (id \in Range(buckets[i])) <=> (i = b)

\* C1: artist-mode classification returns len(pools)+1 buckets that form a
\* stable partition of the input track ids: every occurrence lands in
\* exactly one bucket and every bucket keeps the input order.
C1_ArtistStablePartition ==
    last.op = "split_by_artist" =>
        /\ Len(result) = Len(split_pools.pools) + 1
        /\ IsStablePartition(result, Ids(last.tracks))

C1_Witness ==
    /\ last.op = "split_by_artist"
    /\ Len(last.tracks) = 3
    /\ Len(split_pools.pools) = 2
    /\ \E i \in 1..Len(result) : Len(result[i]) = 2 /\ result[i][1] # result[i][2]
    /\ \E i \in 1..Len(result) : Len(result[i]) = 1

\* C2: artist-mode assignment is first-match with overflow fallback: a
\* track goes to the bucket of the least pool index sharing an artist with
\* it, and to the overflow bucket (index len(pools)) when no pool does.
C2_ArtistFirstMatch ==
    last.op = "split_by_artist" =>
        \A k \in 1..Len(last.tracks) :
            LET track == last.tracks[k]
                shares == [i \in 1..Len(split_pools.pools) |->
                             \E a \in track.artists : a \in split_pools.pools[i]]
            IN InBucketOnly(result, track.id, LeastMatch(shares))

C2_Witness ==
    /\ last.op = "split_by_artist"
    /\ Len(split_pools.pools) = 2
    /\ \E k \in 1..Len(last.tracks) :
          /\ last.tracks[k].artists \cap split_pools.pools[1] # {}
          /\ last.tracks[k].artists \cap split_pools.pools[2] # {}
          /\ last.tracks[k].id \in Range(result[1])
    /\ \E k \in 1..Len(last.tracks) :
          /\ \A i \in 1..2 : last.tracks[k].artists \cap split_pools.pools[i] = {}
          /\ last.tracks[k].id \in Range(result[3])
    /\ \E k \in 1..Len(last.tracks) :
          /\ last.tracks[k].artists \cap split_pools.pools[1] = {}
          /\ last.tracks[k].id \in Range(result[2])

\* C3: label-mode classification puts each track in the bucket of the first
\* pool containing exactly (case-sensitively) the label of the track's
\* album, in the overflow bucket when none does; tracks with the same label
\* share a bucket and keep their input order.
C3_LabelFirstMatch ==
    last.op = "split_by_label" =>
        /\ Len(result) = Len(split_pools.pools) + 1
        /\ \A k \in 1..Len(last.tracks) :
            LET track == last.tracks[k]
                holds == [i \in 1..Len(split_pools.pools) |->
                            \E l \in split_pools.pools[i] : l = AlbumLabel(track.album)]
            IN InBucketOnly(result, track.id, LeastMatch(holds))
        /\ \A i \in 1..Len(result) : result[i] = Restrict(Ids(last.tracks), Range(result[i]))

\* two distinct tracks of one label in one pool bucket, in input order,
\* while a track whose label differs only in case overflows
C3_Witness ==
    /\ last.op = "split_by_label"
    /\ split_pools.pools = <<{"Warp"}, {"Ninja Tune"}>>
    /\ Ids(last.tracks) = <<3, 2, 1>>
    /\ result = <<<<>>, <<3, 1>>, <<2>>>>

---------------------------------------------------------------------------
(* Properties of the destination write *)

IsAdd(call, p) == call[1] = "playlist_add_items" /\ call[2] = p
IsReplace(call, p) == call[1] = "playlist_replace_items" /\ call[2] = p
IsRemove(call, p) == call[1] = "playlist_remove_all_occurrences_of_items" /\ call[2] = p

AddsTo(log, p) == LET Is(c) == IsAdd(c, p) IN SelectSeq(log, Is)

RECURSIVE ConcatChunks(_)
ConcatChunks(adds) ==
    IF adds = <<>> THEN <<>> ELSE Head(adds)[3] \o ConcatChunks(Tail(adds))

CeilDiv(n, b) == (n + b - 1) \div b

\* C7: write_playlist of N ids issues exactly ceil(N/50) append calls, each
\* of at most 50 ids, whose concatenation in call order is the input list;
\* none for N = 0.
C7_ChunkedWrite ==
    last.op = "write_playlist" =>
        LET adds == AddsTo(calls, last.playlist)
            N == Len(last.track_list)
        IN /\ Len(adds) = CeilDiv(N, BatchLimit)
           /\ \A k \in 1..Len(adds) : Len(adds[k][3]) <= BatchLimit
           /\ ConcatChunks(adds) = last.track_list
           /\ N = 0 => Len(adds) = 0
           /\ \A k \in 1..Len(calls) :
                 calls[k][1] = "playlist_add_items" => calls[k][2] = last.playlist

C7_Witness ==
    /\ last.op = "write_playlist"
    /\ Len(last.track_list) = 2 * BatchLimit + 1
    /\ Len(AddsTo(calls, last.playlist)) = 3
    /\ Len(AddsTo(calls, last.playlist)[3][3]) = 1

\* C8: reset_playlist followed by write_playlist leaves the destination
\* holding exactly the written list, whatever it held before (no prior item,
\* no placeholder left over from clearing); each clear is replace-all with
\* the single placeholder followed by removal of all its occurrences, and
\* every clear precedes every append.
C8_ClearThenWrite ==
    last.op = "reset_then_write" =>
        LET p == last.playlist IN
        /\ contents[p] = last.track_list
        /\ \A i, j \in 1..Len(calls) :
              (IsAdd(calls[i], p) /\ (IsReplace(calls[j], p) \/ IsRemove(calls[j], p))) => j < i
        /\ \E i \in 1..Len(calls) : IsReplace(calls[i], p)
        /\ \A i \in 1..Len(calls) :
              IsReplace(calls[i], p) =>
                 /\ calls[i][3] = <<PlaceholderTrack>>
                 /\ i < Len(calls)
                 /\ IsRemove(calls[i + 1], p)
                 /\ calls[i + 1][3] = <<PlaceholderTrack>>

C8_Witness ==
    /\ last.op = "reset_then_write"
    /\ last.prior = <<PlaceholderTrack, 2>>
    /\ last.track_list = <<1>>
    /\ contents[last.playlist] = <<1>>

---------------------------------------------------------------------------
(* Properties of the paging helper *)

RECURSIVE Flatten(_)
Flatten(pgs) == IF pgs = <<>> THEN <<>> ELSE Head(pgs) \o Flatten(Tail(pgs))

\* C9: for an origin playlist served as k >= 1 pages the helper issues one
\* initial playlist request followed by exactly k-1 next-page requests, one
\* per further page in order, none after the cursor signalled completion
\* (cursor 0), and returns the pages' items concatenated in arrival order.
C9_FetchAllItems ==
    last.op = "get_all_playlist_items" =>
        /\ Len(calls) = Len(pages)
        /\ calls[1] = <<"playlist", last.playlist_id>>
        /\ \A i \in 2..Len(calls) : calls[i] = <<"next", i>>
        /\ result = Flatten(pages)

C9_Witness ==
    /\ last.op = "get_all_playlist_items"
    /\ Len(pages) = 3
    /\ Len(result) = 2
    /\ pages[3] = <<>>
    /\ Len(calls) = 3

---------------------------------------------------------------------------
(* Properties of the splitter *)

CountCalls(log, name) == Cardinality({i \in 1..Len(log) : log[i][1] = name})

NoKeywords == ~last.by /\ ~last.playlist /\ ~last.into

\* C4: split invoked with origin playlist, split type or pools unset, or
\* with a target list whose length is neither len(pools) nor len(pools)+1,
\* raises and issues no catalog call at all.
C4_ValidationBeforeSideEffects ==
    (/\ last.op = "split"
     /\ \/ origin_playlist = NoneStr
        \/ split_type = NoneStr
        \/ ~split_pools.set
        \/ /\ last.targets.kind = "list"
           /\ Len(last.targets.ids) \notin {Len(split_pools.pools), Len(split_pools.pools) + 1})
    => /\ raised \in {ErrSettings, ErrTargets}
       /\ calls = <<>>
       /\ result = NoResult

\* a second split, after one that wrote destinations and created playlists,
\* is rejected for its target count without a single catalog call
C4_Witness ==
    /\ last.op = "split"
    /\ nsplit = 2
    /\ created > 0
    /\ origin_playlist # NoneStr /\ split_type # NoneStr /\ split_pools.set
    /\ last.targets.kind = "list"
    /\ Len(last.targets.ids) = Len(split_pools.pools) + 2
    /\ raised = ErrTargets
    /\ calls = <<>>

\* C5 (as claimed): with target playlists unset (and at least one pool),
\* split creates len(pools)+1 destinations, writes every bucket (the
\* overflow bucket included) to its own destination and completes without
\* raising.
C5_AutoCreateAllBuckets ==
    (/\ last.op = "split"
     /\ last.targets.kind = "None"
     /\ raised # ErrSettings
     /\ Len(split_pools.pools) >= 1)
    => /\ raised = NoError
       /\ CountCalls(calls, "user_playlist_create") = Len(split_pools.pools) + 1
       /\ \A i \in 1..Len(result) :
            contents[Created(created - Len(result) + i)] = result[i]

\* C6 (as claimed): a supplied target list of length len(pools) or
\* len(pools)+1 (for at least one pool) makes split run to completion
\* without an error, each supplied destination i holding exactly bucket i
\* on return.
C6_SuppliedTargetsComplete ==
    (/\ last.op = "split"
     /\ raised # ErrSettings
     /\ Len(split_pools.pools) >= 1
     /\ last.targets.kind = "list"
     /\ Len(last.targets.ids) \in {Len(split_pools.pools), Len(split_pools.pools) + 1})
    => /\ raised = NoError
       /\ \A i \in 1..Len(last.targets.ids) : contents[last.targets.ids[i]] = result[i]

\* C10 (as claimed): the configuration is consumed by a split execution:
\* once split has run, the instance holds no origin, type, pools or targets.
C10_ConfigConsumed ==
    (last.op = "split" /\ raised = NoError) =>
        /\ origin_playlist = NoneStr
        /\ split_type = NoneStr
        /\ ~split_pools.set
        /\ target_playlists = NoneTargets

\* C10 (amended): split never clears a field.  A split leaves origin, type
\* and pools as they were unless its keyword arguments set them, and keeps
\* a stored non-empty target list.  A split without keyword arguments that
\* directly follows a split which got past validation never raises the
\* missing-settings error: with a stored target list it runs again on the
\* same destinations (same calls, same outcome), and with the generator left
\* by auto-creation it raises the TypeError of len() without a catalog call.
SplitStep == last'.op = "split" /\ nsplit' = nsplit + 1

RanBefore == last.op = "split" /\ raised \in {NoError, ErrZip}

C10_ConfigRetainedStep ==
    SplitStep =>
        /\ ~last'.playlist => origin_playlist' = origin_playlist
        /\ ~last'.by => split_type' = split_type /\ split_pools' = split_pools
        /\ (~last'.into /\ target_playlists.kind = "list" /\ target_playlists.ids # <<>>)
              => target_playlists' = target_playlists
        /\ (RanBefore /\ ~last'.by /\ ~last'.playlist /\ ~last'.into) =>
              /\ raised' # ErrSettings
              /\ target_playlists.kind = "list" =>
                    /\ raised' = raised
                    /\ calls' = calls
                    /\ calls' # <<>>
                    /\ result' = result
              /\ target_playlists.kind = "generator" =>
                    /\ raised' = ErrGenLen
                    /\ calls' = <<>>

C10_ConfigRetained == [][C10_ConfigRetainedStep]_vars

\* a second split without keyword arguments that fetched and wrote again
C10_Witness ==
    /\ last.op = "split"
    /\ nsplit = 2
    /\ NoKeywords
    /\ raised = NoError
    /\ CountCalls(calls, "playlist_add_items") >= 2
    /\ target_playlists.kind = "list"
    /\ Len(target_playlists.ids) = MaxPools + 1

=============================================================================
